---- MODULE Spec2Model ----
(***************************************************************************)
(* Model of libcontainer's InitContainerBuilder (init_builder.rs): the     *)
(* builder's configuration methods and the steps of build(), run by two    *)
(* runtime processes against one containers root directory.                *)
(***************************************************************************)
EXTENDS Naturals, Sequences, FiniteSets, TLC

\* ---------------------------------------------------------------- universe

\* The runtime processes that call the builder, each a separate OS process.
Procs == {"p1", "p2"}
\* The number of container ids the callers choose from.
NumIds == 2
\* Container ids handed to the builder (base.container_id).
Ids == 1..NumIds

None == <<>>
Some(x) == <<x>>
IsSome(o) == o # <<>>
Get(o) == o[1]

\* The version strings of the sample bundles, as character sequences.
V102 == <<"1", ".", "0", ".", "2">>
V09 == <<"0", ".", "9">>
V105 == <<"1", ".", "0", "5">>
V10 == <<"1", ".", "0">>

\* The bundles on disk.  Each holds what Spec::load and the rootfs
\* canonicalisation find there: whether config.json parses, the spec's
\* version, its process block ("none", "noprofile": a process block without
\* an apparmor profile, "profile": one naming a profile), whether it has a
\* root entry, whether the rootfs path resolves, and its annotations (a set
\* of key/value pairs).
Bundles == {"/b/ok", "/b/prof", "/b/v09", "/b/v105", "/b/v10prof", "/b/bad",
            "/b/noroot"}

BundleAt(b) ==
    CASE b = "/b/ok" ->
           [loadable |-> TRUE, version |-> V102, process |-> "noprofile",
            root |-> TRUE, canon |-> TRUE, annotations |-> {}]
      [] b = "/b/prof" ->
           [loadable |-> TRUE, version |-> V102, process |-> "profile",
            root |-> TRUE, canon |-> TRUE, annotations |-> {<<"k1", "v1">>}]
      [] b = "/b/v09" ->
           [loadable |-> TRUE, version |-> V09, process |-> "none",
            root |-> TRUE, canon |-> TRUE, annotations |-> {}]
      [] b = "/b/v105" ->
           [loadable |-> TRUE, version |-> V105, process |-> "none",
            root |-> TRUE, canon |-> FALSE,
            annotations |-> {<<"k1", "v2">>, <<"k2", "v1">>}]
      [] b = "/b/v10prof" ->
           [loadable |-> TRUE, version |-> V10, process |-> "profile",
            root |-> TRUE, canon |-> FALSE, annotations |-> {}]
      [] b = "/b/bad" ->
           [loadable |-> FALSE, version |-> <<>>, process |-> "none",
            root |-> FALSE, canon |-> FALSE, annotations |-> {}]
      [] OTHER ->
           [loadable |-> TRUE, version |-> V102, process |-> "none",
            root |-> FALSE, canon |-> TRUE, annotations |-> {<<"k1", "v1">>}]

\* What apparmor::is_enabled() answers on this host: Ok(true), Ok(false) or Err.
ApparmorStates == {"enabled", "disabled", "error"}

\* The statuses refresh_state can find once the backend has spawned init:
\* init is waiting to be started, or it has died.
RefreshedStatus == {"Created", "Stopped"}

\* The working directory a runtime process starts in.
StartDir == <<"start">>

VARIABLES
    apparmor,    \* host: the answer of apparmor::is_enabled()
    dirs,        \* root_path/<id>: None when absent, Some(creator) when present
    stateFile,   \* root_path/<id>/state.json: None or Some(state record)
    configFile,  \* root_path/<id>/youki_config.json: None or Some(config)
    pc,          \* each process's position in new / with_systemd / build
    builder,     \* each process's InitContainerBuilder value
    container,   \* build's local `container` (None before it is created)
    handoff,     \* the clone given to ContainerBuilderImpl (None before)
    rootless,    \* build's local `rootless`: None or Some(mapping)
    result,      \* what build() returned: "none", "Ok" or the error
    trace,       \* the steps build() has attempted, in order
    cwd,         \* each process's working directory
    mkdirRes,    \* what create_dir_all returned: "none", "ok", "exists", "io"
    backendRes,  \* what builder_impl.create() returned: "none", "ok", "err"
    existedAtCall, \* whether root_path/<id> was there when build() was called
    socketFile   \* root_path/<id>/console-socket: present or not

vars == <<apparmor, dirs, stateFile, configFile, socketFile, pc, builder,
          container, handoff, rootless, result, trace, cwd, mkdirRes,
          backendRes, existedAtCall>>

fsVars == <<dirs, stateFile, configFile, socketFile>>
localVars == <<container, handoff, rootless, cwd, mkdirRes, backendRes>>

\* ------------------------------------------------------------ pure helpers

\* str::starts_with on character sequences.
starts_with(s, prefix) ==
    /\ Len(s) >= Len(prefix)
    /\ SubSeq(s, 1, Len(prefix)) = prefix

\* root_path.join(container_id)
container_dir(id) == <<"root", id>>

\* ------------------------------------------------------------ load_spec

\* validate_spec without its version test.
validate_spec_no_version_test(spec, aa) ==
    IF spec.process = "profile"
    THEN CASE aa = "error" -> "ErrApparmorProbe"
           [] aa = "disabled" -> "ErrProfile"
           [] OTHER -> "Ok"
    ELSE "Ok"

\* validate_spec with the apparmor test inverted: it bails when the host
\* reports apparmor enabled.
validate_spec_probe_inverted(spec, aa) ==
    IF ~starts_with(spec.version, <<"1", ".", "0">>)
    THEN "ErrVersion"
    ELSE IF spec.process = "profile"
         THEN CASE aa = "error" -> "ErrApparmorProbe"
                [] aa = "enabled" -> "ErrProfile"
                [] OTHER -> "Ok"
         ELSE "Ok"

\* validate_spec: the version test, then the apparmor test of a process
\* block that names a profile.  "Ok" or the error it bails with.
validate_spec(spec, aa) ==
    IF ~starts_with(spec.version, <<"1", ".", "0">>)
    THEN "ErrVersion"
    ELSE IF spec.process = "profile"
         THEN CASE aa = "error" -> "ErrApparmorProbe"
                [] aa = "disabled" -> "ErrProfile"
                [] OTHER -> "Ok"
         ELSE "Ok"

\* load_spec: Spec::load, validate_spec, canonicalize_rootfs, each ending
\* the function on its error.  The result and the steps attempted.
load_spec(bundle, aa) ==
    LET b == BundleAt(bundle) IN
    IF ~b.loadable
    THEN [res |-> "ErrLoad", steps |-> <<"load">>]
    ELSE IF validate_spec(b, aa) # "Ok"
    THEN [res |-> validate_spec(b, aa), steps |-> <<"load", "validate">>]
    ELSE IF ~b.canon
    THEN [res |-> "ErrCanonicalize",
          steps |-> <<"load", "validate", "canonicalize">>]
    ELSE [res |-> "Ok", steps |-> <<"load", "validate", "canonicalize">>]

\* ------------------------------------------------- the container entity

\* create_container_state starting the entity at Created.
initial_status_created == "Created"

\* The status create_container_state gives the new entity.
initial_status == "Creating"

\* Container::new(id, status, pid, bundle, container_dir): the entity, with
\* the systemd flag and the annotations not yet set.
container_new(id, status, pid, bundle, dir) ==
    [id |-> id, status |-> status, pid |-> pid, bundle |-> bundle,
     root |-> dir, use_systemd |-> None, annotations |-> None]

\* Container::save: the state file of the entity's directory holds the entity.
save(c, files) == [files EXCEPT ![c.id] = Some(c)]

\* build() setting the systemd flag to its default, not the builder's.
set_flags_systemd_default(c, systemd, annots) ==
    [c EXCEPT !.use_systemd = Some(TRUE), !.annotations = Some(annots)]

\* build() without the set_annotations call.
set_flags_without_annotations(c, systemd, annots) ==
    [c EXCEPT !.use_systemd = Some(systemd)]

\* container.set_systemd(b).set_annotations(a): in memory only.
set_flags(c, systemd, annots) ==
    [c EXCEPT !.use_systemd = Some(systemd), !.annotations = Some(annots)]

\* YoukiConfig::from_spec(spec, id, rootless.is_some())
from_spec(bundle, id, isRootless) ==
    [id |-> id, rootless |-> isRootless]

\* ------------------------------------------------------ directory steps

\* create_container_dir testing the containers root, not root_path/<id>:
\* any container's directory counts.
dir_exists_any_id(id, d) == \E i \in Ids : IsSome(d[i])

\* create_container_dir without its existence check.
dir_exists_unchecked(id, d) == FALSE

\* container_dir.exists()
dir_exists(id, d) == IsSome(d[id])

\* utils::create_dir_all on root_path/<id>: the directory-creation
\* primitive, which fails when the directory is already there.
create_dir_all(id, d) == IF IsSome(d[id]) THEN "exists" ELSE "ok"

\* create_container_dir dropping the error of create_dir_all.
after_create_dir_error_dropped(res) == "create_container_state"

\* The `?` after create_dir_all: only a created directory is returned.
after_create_dir(res) ==
    IF res = "ok" THEN "create_container_state" ELSE "done"

\* build() dropping the error of builder_impl.create().
after_backend_error_dropped(res) == "refresh_state"

\* The `?` after builder_impl.create(): refresh only when it returned Ok.
after_backend(res) ==
    IF res = "ok" THEN "refresh_state" ELSE "done"

\* ------------------------------------------------------------- sequencing

\* build() invoking the backend before it derives and saves the config.
next_step_backend_before_config(step) ==
    CASE step = "load_spec" -> "exists"
      [] step = "exists" -> "create_dir_all"
      [] step = "create_dir_all" -> "create_container_state"
      [] step = "create_container_state" -> "set_flags"
      [] step = "set_flags" -> "chdir"
      [] step = "chdir" -> "rootfs"
      [] step = "rootfs" -> "console_socket"
      [] step = "console_socket" -> "rootless"
      [] step = "rootless" -> "assemble"
      [] step = "assemble" -> "backend"
      [] step = "backend" -> "config"
      [] step = "config" -> "refresh_state"
      [] OTHER -> "done"

\* build() going from Rootless::new to the backend without saving the config.
next_step_skips_config(step) ==
    CASE step = "load_spec" -> "exists"
      [] step = "exists" -> "create_dir_all"
      [] step = "create_dir_all" -> "create_container_state"
      [] step = "create_container_state" -> "set_flags"
      [] step = "set_flags" -> "chdir"
      [] step = "chdir" -> "rootfs"
      [] step = "rootfs" -> "console_socket"
      [] step = "console_socket" -> "rootless"
      [] step = "rootless" -> "assemble"
      [] step = "assemble" -> "backend"
      [] step = "backend" -> "refresh_state"
      [] OTHER -> "done"

\* build() changing directory before it creates the container state.
next_step_chdir_first(step) ==
    CASE step = "load_spec" -> "exists"
      [] step = "exists" -> "create_dir_all"
      [] step = "create_dir_all" -> "chdir"
      [] step = "chdir" -> "create_container_state"
      [] step = "create_container_state" -> "set_flags"
      [] step = "set_flags" -> "rootfs"
      [] step = "rootfs" -> "console_socket"
      [] step = "console_socket" -> "rootless"
      [] step = "rootless" -> "config"
      [] step = "config" -> "assemble"
      [] step = "assemble" -> "backend"
      [] step = "backend" -> "refresh_state"
      [] OTHER -> "done"

\* The statement that follows each statement of build() when it succeeds.
next_step(step) ==
    CASE step = "load_spec" -> "exists"
      [] step = "exists" -> "create_dir_all"
      [] step = "create_dir_all" -> "create_container_state"
      [] step = "create_container_state" -> "set_flags"
      [] step = "set_flags" -> "chdir"
      [] step = "chdir" -> "rootfs"
      [] step = "rootfs" -> "console_socket"
      [] step = "console_socket" -> "rootless"
      [] step = "rootless" -> "config"
      [] step = "config" -> "assemble"
      [] step = "assemble" -> "backend"
      [] step = "backend" -> "refresh_state"
      [] OTHER -> "done"

\* build() goes on to the next statement.
Goto(p, step, did) ==
    /\ pc' = [pc EXCEPT ![p] = next_step(step)]
    /\ trace' = [trace EXCEPT ![p] = trace[p] \o did]
    /\ UNCHANGED result

\* build() returns: Ok(container) or the error of the failing statement.
Return(p, r, did) ==
    /\ pc' = [pc EXCEPT ![p] = "done"]
    /\ trace' = [trace EXCEPT ![p] = trace[p] \o did]
    /\ result' = [result EXCEPT ![p] = r]

\* The contexts the error of build() carries, outermost first: those that
\* build() and the functions of the builder attach with .context(..), and
\* the message of a bail!.  A `?` alone attaches nothing.
error_context(r) ==
    CASE r = "ErrLoad" -> <<"failed to load spec">>
      [] r = "ErrVersion" ->
           <<"failed to load spec", "failed to validate runtime spec",
             "runtime spec has incompatible version">>
      [] r = "ErrProfile" ->
           <<"failed to load spec", "failed to validate runtime spec",
             "apparmor is not activated on this system">>
      [] r = "ErrApparmorProbe" ->
           <<"failed to load spec", "failed to validate runtime spec">>
      [] r = "ErrCanonicalize" ->
           <<"failed to load spec", "failed to canonicalize rootfs">>
      [] r = "ErrExists" ->
           <<"failed to create container dir", "container already exists">>
      [] r = "ErrMkdir" ->
           <<"failed to create container dir", "failed to create container dir">>
      [] r \in {"ErrContainerNew", "ErrStateSave"} ->
           <<"failed to create container state">>
      [] r = "ErrNoRoot" -> <<"no root in spec">>
      [] r = "ErrConfigSave" -> <<"failed to save config">>
      [] OTHER -> <<>>

\* ---------------------------------------------------------------- Init

Init ==
    /\ apparmor \in ApparmorStates
    /\ dirs = [i \in Ids |-> None]
    /\ stateFile = [i \in Ids |-> None]
    /\ configFile = [i \in Ids |-> None]
    /\ socketFile = [i \in Ids |-> FALSE]
    /\ pc = [p \in Procs |-> "start"]
    /\ builder = [p \in Procs |-> None]
    /\ container = [p \in Procs |-> None]
    /\ handoff = [p \in Procs |-> None]
    /\ rootless = [p \in Procs |-> None]
    /\ result = [p \in Procs |-> "none"]
    /\ trace = [p \in Procs |-> <<>>]
    /\ cwd = [p \in Procs |-> StartDir]
    /\ mkdirRes = [p \in Procs |-> "none"]
    /\ backendRes = [p \in Procs |-> "none"]
    /\ existedAtCall = [p \in Procs |-> FALSE]

\* ------------------------------------------------------- builder methods

\* InitContainerBuilder::new(base, bundle): the base builder carries the
\* container id.
new(p) ==
    /\ pc[p] = "start"
    /\ \E id \in Ids, b \in Bundles :
          builder' = [builder EXCEPT ![p] =
              Some([container_id |-> id, bundle |-> b, use_systemd |-> TRUE])]
    /\ pc' = [pc EXCEPT ![p] = "builder"]
    /\ UNCHANGED <<apparmor, fsVars, localVars, result, trace, existedAtCall>>

\* with_systemd(should_use)
with_systemd(p) ==
    /\ pc[p] = "builder"
    /\ \E should_use \in BOOLEAN :
          builder' = [builder EXCEPT ![p] =
              Some([Get(builder[p]) EXCEPT !.use_systemd = should_use])]
    /\ UNCHANGED <<apparmor, fsVars, localVars, pc, result, trace,
                   existedAtCall>>

\* ------------------------------------------------------------------ build

Self(p) == Get(builder[p])

\* build(), line 45: load_spec and its `?`.
LoadSpec(p) ==
    /\ pc[p] = "builder"
    /\ LET r == load_spec(Self(p).bundle, apparmor) IN
         IF r.res = "Ok"
         THEN Goto(p, "load_spec", r.steps)
         ELSE Return(p, r.res, r.steps)
    /\ existedAtCall' =
         [existedAtCall EXCEPT ![p] = IsSome(dirs[Self(p).container_id])]
    /\ UNCHANGED <<apparmor, fsVars, localVars, builder>>

\* create_container_dir cleaning up on its "already exists" error: it
\* removes the directory it found.
ExistsCheck_removes_dir(p) ==
    /\ pc[p] = "exists"
    /\ IF dir_exists(Self(p).container_id, dirs)
       THEN /\ Return(p, "ErrExists", <<"exists">>)
            /\ dirs' = [dirs EXCEPT ![Self(p).container_id] = None]
            /\ stateFile' = [stateFile EXCEPT ![Self(p).container_id] = None]
            /\ configFile' = [configFile EXCEPT ![Self(p).container_id] = None]
            /\ UNCHANGED socketFile
       ELSE /\ Goto(p, "exists", <<"exists">>)
            /\ UNCHANGED fsVars
    /\ UNCHANGED <<apparmor, localVars, builder, existedAtCall>>

\* create_container_dir taking over a directory it finds: it skips the
\* creation and build() goes on to write the container state into it.
ExistsCheck_reuses_dir(p) ==
    /\ pc[p] = "exists"
    /\ IF dir_exists(Self(p).container_id, dirs)
       THEN Goto(p, "create_dir_all", <<"exists">>)
       ELSE Goto(p, "exists", <<"exists">>)
    /\ UNCHANGED <<apparmor, fsVars, localVars, builder, existedAtCall>>

\* create_container_dir, lines 103-108: the existence check.
ExistsCheck(p) ==
    /\ pc[p] = "exists"
    /\ IF dir_exists(Self(p).container_id, dirs)
       THEN Return(p, "ErrExists", <<"exists">>)
       ELSE Goto(p, "exists", <<"exists">>)
    /\ UNCHANGED <<apparmor, fsVars, localVars, builder, existedAtCall>>

\* create_container_dir, lines 110-112: create_dir_all and its `?`.  The
\* creation can also fail for want of permission or space.
CreateDirAll(p) ==
    /\ pc[p] = "create_dir_all"
    /\ \E io \in BOOLEAN :
         LET id == Self(p).container_id
             res == IF io THEN create_dir_all(id, dirs) ELSE "io"
         IN
         /\ mkdirRes' = [mkdirRes EXCEPT ![p] = res]
         /\ dirs' = IF res = "ok" THEN [dirs EXCEPT ![id] = Some(p)] ELSE dirs
         /\ IF after_create_dir(res) = "done"
            THEN Return(p, "ErrMkdir", <<"create_dir_all">>)
            ELSE Goto(p, "create_dir_all", <<"create_dir_all">>)
    /\ UNCHANGED <<apparmor, stateFile, configFile, socketFile, builder,
                   container, handoff, rootless, cwd, backendRes,
                   existedAtCall>>

\* create_container_state, lines 148-158: Container::new, then save.
CreateContainerState(p) ==
    /\ pc[p] = "create_container_state"
    /\ \E newOk, saveOk \in BOOLEAN :
         LET id == Self(p).container_id
             c == container_new(id, initial_status, None, Self(p).bundle,
                                container_dir(id))
         IN
         IF ~newOk
         THEN /\ Return(p, "ErrContainerNew", <<"create_container_state">>)
              /\ UNCHANGED <<stateFile, container>>
         ELSE IF ~saveOk
         THEN /\ Return(p, "ErrStateSave", <<"create_container_state">>)
              /\ UNCHANGED <<stateFile, container>>
         ELSE /\ Goto(p, "create_container_state", <<"create_container_state">>)
              /\ stateFile' = save(c, stateFile)
              /\ container' = [container EXCEPT ![p] = Some(c)]
    /\ UNCHANGED <<apparmor, dirs, configFile, socketFile, builder, handoff,
                   rootless, cwd, mkdirRes, backendRes, existedAtCall>>

\* build(), lines 53-55: set_systemd and set_annotations.
SetFlags(p) ==
    /\ pc[p] = "set_flags"
    /\ container' = [container EXCEPT ![p] =
           Some(set_flags(Get(container[p]), Self(p).use_systemd,
                          BundleAt(Self(p).bundle).annotations))]
    /\ Goto(p, "set_flags", <<"set_flags">>)
    /\ UNCHANGED <<apparmor, fsVars, builder, handoff, rootless, cwd, mkdirRes,
                   backendRes, existedAtCall>>

\* build(), lines 57-58: chdir into the container directory.
Chdir(p) ==
    /\ pc[p] = "chdir"
    /\ \E ok \in BOOLEAN :
         IF ok
         THEN /\ cwd' = [cwd EXCEPT ![p] = container_dir(Self(p).container_id)]
              /\ Goto(p, "chdir", <<"chdir">>)
         ELSE /\ Return(p, "ErrChdir", <<"chdir">>)
              /\ UNCHANGED cwd
    /\ UNCHANGED <<apparmor, fsVars, builder, container, handoff, rootless,
                   mkdirRes, backendRes, existedAtCall>>

\* build(), line 60: the spec's root, canonicalized.
ResolveRootfs(p) ==
    /\ pc[p] = "rootfs"
    /\ IF ~BundleAt(Self(p).bundle).root
       THEN Return(p, "ErrNoRoot", <<"rootfs">>)
       ELSE \E ok \in BOOLEAN :
              IF ok THEN Goto(p, "rootfs", <<"rootfs">>)
                    ELSE Return(p, "ErrRootfs", <<"rootfs">>)
    /\ UNCHANGED <<apparmor, fsVars, localVars, builder, existedAtCall>>

\* build(), lines 64-72: the console socket, when the base builder carries
\* one (base.console_socket is read here and nowhere else).
ConsoleSocket(p) ==
    /\ pc[p] = "console_socket"
    /\ \E console_socket, ok \in BOOLEAN :
       IF ~console_socket
       THEN /\ Goto(p, "console_socket", <<>>)
            /\ UNCHANGED socketFile
       ELSE   IF ok
              THEN /\ Goto(p, "console_socket", <<"console_socket">>)
                   /\ socketFile' =
                        [socketFile EXCEPT ![Self(p).container_id] = TRUE]
              ELSE /\ Return(p, "ErrConsole", <<"console_socket">>)
                   /\ UNCHANGED socketFile
    /\ UNCHANGED <<apparmor, dirs, stateFile, configFile, localVars, builder,
                   existedAtCall>>

\* build(), line 74: Rootless::new.
RootlessNew(p) ==
    /\ pc[p] = "rootless"
    /\ \E r \in {"err", "none", "some"} :
         IF r = "err"
         THEN /\ Return(p, "ErrRootless", <<"rootless">>)
              /\ UNCHANGED rootless
         ELSE /\ Goto(p, "rootless", <<"rootless">>)
              /\ rootless' = [rootless EXCEPT ![p] =
                     IF r = "some" THEN Some("idmap") ELSE None]
    /\ UNCHANGED <<apparmor, fsVars, builder, container, handoff, cwd, mkdirRes,
                   backendRes, existedAtCall>>

\* build(), lines 75-78: YoukiConfig::from_spec, then save.
ConfigSave(p) ==
    /\ pc[p] = "config"
    /\ \E r \in {"from_spec", "save", "ok"} :
         LET id == Get(container[p]).id IN
         CASE r = "from_spec" ->
                /\ Return(p, "ErrConfigFromSpec", <<"config">>)
                /\ UNCHANGED configFile
           [] r = "save" ->
                /\ Return(p, "ErrConfigSave", <<"config">>)
                /\ UNCHANGED configFile
           [] OTHER ->
                /\ Goto(p, "config", <<"config">>)
                /\ configFile' = [configFile EXCEPT ![id] =
                       Some(from_spec(Self(p).bundle, id, IsSome(rootless[p])))]
    /\ UNCHANGED <<apparmor, dirs, stateFile, socketFile, localVars, builder,
                   existedAtCall>>

\* build() handing the backend no rootless value, whatever Rootless::new
\* returned.
Assemble_drops_rootless(p) ==
    /\ pc[p] = "assemble"
    /\ handoff' = [handoff EXCEPT ![p] =
           Some([container_id |-> Self(p).container_id,
                 use_systemd |-> Self(p).use_systemd,
                 rootless |-> None,
                 container |-> Get(container[p]),
                 detached |-> FALSE])]
    /\ Goto(p, "assemble", <<>>)
    /\ UNCHANGED <<apparmor, fsVars, builder, container, rootless, cwd, mkdirRes,
                   backendRes, existedAtCall>>

\* build(), lines 80-94: the backend's inputs, with a clone of the entity.
Assemble(p) ==
    /\ pc[p] = "assemble"
    /\ handoff' = [handoff EXCEPT ![p] =
           Some([container_id |-> Self(p).container_id,
                 use_systemd |-> Self(p).use_systemd,
                 rootless |-> rootless[p],
                 container |-> Get(container[p]),
                 detached |-> FALSE])]
    /\ Goto(p, "assemble", <<>>)
    /\ UNCHANGED <<apparmor, fsVars, builder, container, rootless, cwd, mkdirRes,
                   backendRes, existedAtCall>>

\* build() handing the backend its own entity, not a clone: what the
\* backend changes is changed in the entity of build().
BackendCreate_shared_entity(p) ==
    /\ pc[p] = "backend"
    /\ \E res \in {"ok", "err"} :
         /\ backendRes' = [backendRes EXCEPT ![p] = res]
         /\ handoff' = [handoff EXCEPT ![p] =
                IF res = "ok"
                THEN Some([Get(handoff[p]) EXCEPT
                              !.container.status = "Created",
                              !.container.pid = Some("init")])
                ELSE handoff[p]]
         /\ container' = [container EXCEPT ![p] =
                IF res = "ok"
                THEN Some([Get(container[p]) EXCEPT
                              !.status = "Created",
                              !.pid = Some("init")])
                ELSE container[p]]
         /\ IF after_backend(res) = "done"
            THEN Return(p, "ErrBackend", <<"backend">>)
            ELSE Goto(p, "backend", <<"backend">>)
    /\ UNCHANGED <<apparmor, fsVars, builder, rootless, cwd, mkdirRes,
                   existedAtCall>>

\* build(), line 96: builder_impl.create() returns, and its `?`.  The
\* backend works on its clone of the entity.
BackendCreate(p) ==
    /\ pc[p] = "backend"
    /\ \E res \in {"ok", "err"} :
         /\ backendRes' = [backendRes EXCEPT ![p] = res]
         /\ handoff' = [handoff EXCEPT ![p] =
                IF res = "ok"
                THEN Some([Get(handoff[p]) EXCEPT
                              !.container.status = "Created",
                              !.container.pid = Some("init")])
                ELSE handoff[p]]
         /\ IF after_backend(res) = "done"
            THEN Return(p, "ErrBackend", <<"backend">>)
            ELSE Goto(p, "backend", <<"backend">>)
    /\ UNCHANGED <<apparmor, fsVars, builder, container, rootless, cwd, mkdirRes,
                   existedAtCall>>

\* build(), lines 97-99: refresh_state, then Ok(container).
RefreshState(p) ==
    /\ pc[p] = "refresh_state"
    /\ \E ok \in BOOLEAN, st \in RefreshedStatus :
         LET c == [Get(container[p]) EXCEPT !.status = st,
                                            !.pid = Some("init")]
         IN
         IF ok
         THEN /\ Return(p, "Ok", <<"refresh_state">>)
              /\ container' = [container EXCEPT ![p] = Some(c)]
              /\ stateFile' = save(c, stateFile)
         ELSE /\ Return(p, "ErrRefresh", <<"refresh_state">>)
              /\ UNCHANGED <<container, stateFile>>
    /\ UNCHANGED <<apparmor, dirs, configFile, socketFile, builder, handoff,
                   rootless, cwd, mkdirRes, backendRes, existedAtCall>>

Step(p) ==
    \/ new(p)
    \/ with_systemd(p)
    \/ LoadSpec(p)
    \/ ExistsCheck(p)
    \/ CreateDirAll(p)
    \/ CreateContainerState(p)
    \/ SetFlags(p)
    \/ Chdir(p)
    \/ ResolveRootfs(p)
    \/ ConsoleSocket(p)
    \/ RootlessNew(p)
    \/ ConfigSave(p)
    \/ Assemble(p)
    \/ BackendCreate(p)
    \/ RefreshState(p)

Next == \E p \in Procs : Step(p)

Spec == Init /\ [][Next]_vars

\* ------------------------------------------------- builds one after another

\* What an earlier container left in its state directory.
EarlierState(i) ==
    [container_new(i, "Stopped", Some("init"), "/b/ok", container_dir(i))
        EXCEPT !.use_systemd = Some(TRUE), !.annotations = Some({})]

\* As Init, with the state directories of earlier containers in place.
InitSeq ==
    /\ apparmor \in ApparmorStates
    /\ \E earlier \in SUBSET Ids :
          /\ dirs = [i \in Ids |->
                      IF i \in earlier THEN Some("earlier") ELSE None]
          /\ stateFile = [i \in Ids |->
                      IF i \in earlier THEN Some(EarlierState(i)) ELSE None]
          /\ configFile = [i \in Ids |->
                      IF i \in earlier THEN Some(from_spec("/b/ok", i, FALSE))
                                       ELSE None]
    /\ socketFile = [i \in Ids |-> FALSE]
    /\ pc = [p \in Procs |-> "start"]
    /\ builder = [p \in Procs |-> None]
    /\ container = [p \in Procs |-> None]
    /\ handoff = [p \in Procs |-> None]
    /\ rootless = [p \in Procs |-> None]
    /\ result = [p \in Procs |-> "none"]
    /\ trace = [p \in Procs |-> <<>>]
    /\ cwd = [p \in Procs |-> StartDir]
    /\ mkdirRes = [p \in Procs |-> "none"]
    /\ backendRes = [p \in Procs |-> "none"]
    /\ existedAtCall = [p \in Procs |-> FALSE]

\* The second caller makes its builder and calls build() after the build of
\* the first has returned.
NextSeq ==
    \/ Step("p1")
    \/ (pc["p1"] = "done" /\ Step("p2"))

SpecSeq == InitSeq /\ [][NextSeq]_vars

\* ================================================================= claims

Done(p) == pc[p] = "done"
Called(p) == trace[p] # <<>>
Id(p) == Self(p).container_id
Failed(p) == Done(p) /\ result[p] # "Ok"
Attempted(p, step) == \E k \in 1..Len(trace[p]) : trace[p][k] = step

\* The steps of build() that come after the directory was allocated.
LaterSteps == {"create_container_state", "set_flags", "chdir", "rootfs",
               "console_socket", "rootless", "config", "backend",
               "refresh_state"}

\* The build of p went past the allocation of the directory.
PastAllocation(p) == \E st \in LaterSteps : Attempted(p, st)

\* The build of p wrote nothing and started nothing.
NoEffect(p) ==
    /\ mkdirRes[p] # "ok"
    /\ ~PastAllocation(p)
    /\ container[p] = None
    /\ handoff[p] = None
    /\ backendRes[p] = "none"
    /\ cwd[p] = StartDir

\* Two builds of one id that both went on from the existence check to the
\* creation of the directory.
Racing(p, q) ==
    /\ p # q
    /\ IsSome(builder[p]) /\ IsSome(builder[q])
    /\ Id(p) = Id(q)
    /\ ~existedAtCall[p] /\ ~existedAtCall[q]
    /\ mkdirRes[p] # "none" /\ mkdirRes[q] # "none"

C2_Original ==
    \A p \in Procs :
        (Done(p) /\ existedAtCall[p]) => result[p] = "ErrExists"

\* The steps of p leave the file system alone.
LeavesFsAlone(p) ==
    (pc'[p] # pc[p] \/ trace'[p] # trace[p]) => UNCHANGED fsVars

\* C2 (amended): a build called while root_path/id exists fails, with the
\* error of load_spec when load_spec fails and with the "container already
\* exists" error otherwise; it never creates a directory, writes a file or
\* invokes the backend, and none of its steps changes the file system.
C2_ExistingDirUntouched ==
    /\ [](\A p \in Procs :
            (Called(p) /\ existedAtCall[p]) =>
                /\ NoEffect(p)
                /\ ~Attempted(p, "create_dir_all")
                /\ Done(p) =>
                     LET r == load_spec(Self(p).bundle, apparmor) IN
                     result[p] = IF r.res = "Ok" THEN "ErrExists" ELSE r.res)
    /\ [][\A p \in Procs : existedAtCall'[p] => LeavesFsAlone(p)]_vars

\* A build of an id whose directory another build had created failed with
\* the conflict error.
C2_Witness ==
    /\ existedAtCall["p2"]
    /\ result["p2"] = "ErrExists"
    /\ IsSome(stateFile[Id("p2")])

\* C3: a build whose specification loads with a version that does not start
\* with "1.0" fails with the incompatible-version error; it performs no step
\* after the validation, creates no directory, and root_path/id exists
\* afterwards only if another build of that id made it.
C3_BadVersionFailsEarly ==
    \A p \in Procs :
        (Called(p) /\ BundleAt(Self(p).bundle).loadable
           /\ ~starts_with(BundleAt(Self(p).bundle).version, <<"1", ".", "0">>))
        => /\ Done(p)
           /\ result[p] = "ErrVersion"
           /\ trace[p] = <<"load", "validate">>
           /\ NoEffect(p)
           /\ IsSome(dirs[Id(p)]) => Get(dirs[Id(p)]) # p
           /\ (\A q \in Procs \ {p} : IsSome(builder[q]) => Id(q) # Id(p))
                 => /\ dirs[Id(p)] = None
                    /\ stateFile[Id(p)] = None
                    /\ configFile[Id(p)] = None

\* A build of a version "0.9" specification has returned and its directory
\* does not exist.
C3_Witness ==
    /\ Done("p1")
    /\ BundleAt(Self("p1").bundle).version = V09
    /\ result["p1"] = "ErrVersion"
    /\ dirs[Id("p1")] = None

\* "1.0.x": the characters "1.0." followed by at least one more.
IsVersion10x(v) ==
    /\ Len(v) > 4
    /\ SubSeq(v, 1, 4) = <<"1", ".", "0", ".">>

\* C4: validate_spec accepts a version if and only if it has the form
\* 1.0.x; every other version, "1.0", "1.00.1" and "1.05" included, makes
\* the build fail with the incompatible-version error.
C4_AcceptsOnly10x ==
    \A p \in Procs :
        Attempted(p, "validate") =>
            (result[p] # "ErrVersion"
                <=> IsVersion10x(BundleAt(Self(p).bundle).version))

\* The specification of p names an apparmor profile and passes the version
\* test of validate_spec.
NamesProfile(p) ==
    /\ BundleAt(Self(p).bundle).loadable
    /\ starts_with(BundleAt(Self(p).bundle).version, <<"1", ".", "0">>)
    /\ BundleAt(Self(p).bundle).process = "profile"

\* C5: when the process block names an apparmor profile and the host
\* reports apparmor disabled, the build fails with the profile-unsupported
\* error during validation, before any directory is created and without the
\* backend being invoked; when the specification names no profile, or has
\* no process block, no build fails because of apparmor.
C5_ProfileNeedsApparmor ==
    \A p \in Procs :
        Called(p) =>
          /\ (NamesProfile(p) /\ apparmor = "disabled") =>
                /\ Done(p)
                /\ result[p] = "ErrProfile"
                /\ trace[p] = <<"load", "validate">>
                /\ NoEffect(p)
                /\ IsSome(dirs[Id(p)]) => Get(dirs[Id(p)]) # p
          /\ BundleAt(Self(p).bundle).process # "profile" =>
                result[p] \notin {"ErrProfile", "ErrApparmorProbe"}
          /\ (NamesProfile(p) /\ apparmor = "enabled") =>
                result[p] \notin {"ErrProfile", "ErrApparmorProbe"}

\* On a host without apparmor, a build of the bundle whose specification
\* names a profile has failed, and one of a bundle without a profile went on.
C5_Witness ==
    /\ apparmor = "disabled"
    /\ IsSome(builder["p1"]) /\ IsSome(builder["p2"])
    /\ Self("p1").bundle = "/b/prof"
    /\ result["p1"] = "ErrProfile"
    /\ dirs[Id("p1")] = None
    /\ BundleAt(Self("p2").bundle).process = "noprofile"
    /\ Attempted("p2", "backend")

\* The state record persisted for id i has status st.
PersistedStatus(i, st) ==
    /\ IsSome(stateFile[i])
    /\ Get(stateFile[i]).status = st

\* C6: whenever the backend's create is being invoked, the state directory
\* already holds a state record of that container id with status Creating
\* and no pid, and the runtime configuration of that id.
C6_PersistedBeforeBackend ==
    \A p \in Procs :
        pc[p] = "backend" =>
            /\ IsSome(dirs[Id(p)])
            /\ IsSome(stateFile[Id(p)])
            /\ Get(stateFile[Id(p)]).id = Id(p)
            /\ Get(stateFile[Id(p)]).status = "Creating"
            /\ Get(stateFile[Id(p)]).pid = None
            /\ IsSome(configFile[Id(p)])
            /\ Get(configFile[Id(p)]).id = Id(p)
            /\ Attempted(p, "create_container_state")
            /\ Attempted(p, "config")

\* The backend is being invoked for a rootless container.
C6_Witness ==
    /\ pc["p1"] = "backend"
    /\ IsSome(rootless["p1"])
    /\ PersistedStatus(Id("p1"), "Creating")
    /\ Get(configFile[Id("p1")]).rootless

\* C7 as stated: a build that fails at any step after the directory was
\* created, the creation of the state included, leaves the directory with a
\* persisted state record of status Creating.
C7_Original ==
    \A p \in Procs :
        (Failed(p) /\ mkdirRes[p] = "ok") =>
            /\ IsSome(dirs[Id(p)])
            /\ PersistedStatus(Id(p), "Creating")

\* C7 (amended): a build that fails after it created the directory leaves
\* the directory in place; when it fails after the initial state was
\* persisted the directory holds a state record of status Creating, and
\* when it fails in creating or persisting that state the directory holds
\* no state record.
C7_FailedBuildKeepsDir ==
    \A p \in Procs :
        (Failed(p) /\ mkdirRes[p] = "ok") =>
            /\ dirs[Id(p)] = Some(p)
            /\ IF result[p] \in {"ErrContainerNew", "ErrStateSave"}
               THEN stateFile[Id(p)] = None
               ELSE /\ PersistedStatus(Id(p), "Creating")
                    /\ Get(stateFile[Id(p)]).id = Id(p)

\* A build failed in the backend, and another in saving its state.
C7_Witness ==
    /\ result["p1"] = "ErrBackend"
    /\ PersistedStatus(Id("p1"), "Creating")
    /\ result["p2"] = "ErrStateSave"
    /\ dirs[Id("p2")] = Some("p2")

\* C8: the persisted status leaves Creating only by a successful
\* refresh_state that follows a successful backend create; a state record
\* starts at Creating; when the config derivation or save or the backend's
\* create fails the persisted status is Creating when build() returns; and
\* a record that left Creating never returns to it.
C8_CreatingLeftOnlyByRefresh ==
    /\ [](\A p \in Procs :
            (Done(p) /\ result[p] \in {"ErrConfigFromSpec", "ErrConfigSave",
                                       "ErrBackend"})
                => PersistedStatus(Id(p), "Creating"))
    /\ [][\A i \in Ids :
            /\ (stateFile[i] = None /\ stateFile'[i] # None)
                  => PersistedStatus(i, "Creating")'
            /\ (PersistedStatus(i, "Creating") /\ ~PersistedStatus(i, "Creating")')
                  => \E p \in Procs :
                        /\ IsSome(builder[p])
                        /\ Id(p) = i
                        /\ pc[p] = "refresh_state"
                        /\ backendRes[p] = "ok"
                        /\ result'[p] = "Ok"
            /\ (IsSome(stateFile[i]) /\ ~PersistedStatus(i, "Creating"))
                  => (IsSome(stateFile'[i]) /\ ~PersistedStatus(i, "Creating")')
         ]_vars

\* One build left Creating by its refresh; another failed in the backend and
\* stays at Creating.
C8_Witness ==
    /\ result["p1"] = "Ok"
    /\ PersistedStatus(Id("p1"), "Created")
    /\ result["p2"] = "ErrBackend"
    /\ PersistedStatus(Id("p2"), "Creating")

\* C9: after a successful build the persisted state record carries the
\* builder's container id, bundle path and use_systemd value, and the
\* annotations of the specification.
C9_PersistedMatchesBuilder ==
    \A p \in Procs :
        (Done(p) /\ result[p] = "Ok") =>
            /\ IsSome(stateFile[Id(p)])
            /\ Get(stateFile[Id(p)]).id = Id(p)
            /\ Get(stateFile[Id(p)]).bundle = Self(p).bundle
            /\ Get(stateFile[Id(p)]).use_systemd = Some(Self(p).use_systemd)
            /\ Get(stateFile[Id(p)]).annotations =
                  Some(BundleAt(Self(p).bundle).annotations)
            /\ Get(stateFile[Id(p)]) = Get(container[p])

\* A build with systemd switched off and a specification that has
\* annotations succeeded.
C9_Witness ==
    /\ result["p1"] = "Ok"
    /\ ~Self("p1").use_systemd
    /\ Get(stateFile[Id("p1")]).annotations = Some({<<"k1", "v1">>})
    /\ result["p2"] = "Ok"
    /\ Self("p2").use_systemd

\* The steps of build() in their order.
StepOrder ==
    <<"load", "validate", "canonicalize", "exists", "create_dir_all",
      "create_container_state", "set_flags", "chdir", "rootfs",
      "console_socket", "rootless", "config", "backend", "refresh_state">>

\* The same when no console socket was given.
StepOrderNoConsole ==
    <<"load", "validate", "canonicalize", "exists", "create_dir_all",
      "create_container_state", "set_flags", "chdir", "rootfs",
      "rootless", "config", "backend", "refresh_state">>

\* The step each result of build() comes from.
StepOf(r) ==
    CASE r = "ErrLoad" -> "load"
      [] r \in {"ErrVersion", "ErrProfile", "ErrApparmorProbe"} -> "validate"
      [] r = "ErrCanonicalize" -> "canonicalize"
      [] r = "ErrExists" -> "exists"
      [] r = "ErrMkdir" -> "create_dir_all"
      [] r \in {"ErrContainerNew", "ErrStateSave"} -> "create_container_state"
      [] r = "ErrChdir" -> "chdir"
      [] r \in {"ErrNoRoot", "ErrRootfs"} -> "rootfs"
      [] r = "ErrConsole" -> "console_socket"
      [] r = "ErrRootless" -> "rootless"
      [] r \in {"ErrConfigFromSpec", "ErrConfigSave"} -> "config"
      [] r = "ErrBackend" -> "backend"
      [] OTHER -> "refresh_state"

\* The steps attempted are an initial part of the order, each once, with
\* only the console socket step possibly left out.
InOrder(t) ==
    \E o \in {StepOrder, StepOrderNoConsole} :
        /\ Len(t) <= Len(o)
        /\ t = SubSeq(o, 1, Len(t))

\* C10: build() attempts its steps in the fixed order, each at most once;
\* it returns the error of the first step that fails, or Ok after the
\* refresh; and once it has returned it performs no further step.
C10_StepsInOrder ==
    /\ [](\A p \in Procs :
            /\ InOrder(trace[p])
            /\ Done(p) <=> result[p] # "none"
            /\ Done(p) =>
                 /\ trace[p][Len(trace[p])] = StepOf(result[p])
                 /\ result[p] = "Ok" => Len(trace[p]) >= Len(StepOrder) - 1)
    /\ [][\A p \in Procs :
            Done(p) => /\ pc'[p] = "done"
                       /\ trace'[p] = trace[p]
                       /\ result'[p] = result[p]
                       /\ container'[p] = container[p]
                       /\ cwd'[p] = cwd[p]
         ]_vars

\* One build ran every step and returned Ok; another stopped at the chdir.
C10_Witness ==
    /\ result["p1"] = "Ok"
    /\ trace["p1"] = StepOrder
    /\ result["p2"] = "ErrChdir"
    /\ trace["p2"][Len(trace["p2"])] = "chdir"

\* C11: every error build() returns, whichever step it comes from, carries
\* a context that describes the failing step.
C11_EveryErrorHasContext ==
    \A p \in Procs :
        Failed(p) => error_context(result[p]) # <<>>

\* A step that changes the builder of p after it was made: a with_systemd.
WithSystemdStep(p) ==
    /\ IsSome(builder[p])
    /\ builder'[p] # builder[p]

\* C12: with_systemd changes the use_systemd field of the builder and
\* nothing else (not the container id or bundle, no file, no position of
\* build, no result); a new builder has use_systemd = TRUE; the builder does
\* not change once build() is called; and the value the builder carries
\* then is the one set on the entity and passed to the backend.
C12_WithSystemdOnlySetsFlag ==
    /\ [][\A p \in Procs :
            /\ (builder[p] = None /\ builder'[p] # None)
                  => Get(builder'[p]).use_systemd = TRUE
            /\ WithSystemdStep(p) =>
                  /\ pc[p] = "builder"
                  /\ IsSome(builder'[p])
                  /\ Get(builder'[p]).container_id = Get(builder[p]).container_id
                  /\ Get(builder'[p]).bundle = Get(builder[p]).bundle
                  /\ UNCHANGED <<apparmor, fsVars, localVars, pc, result,
                                 trace, existedAtCall>>
         ]_vars
    /\ [](\A p \in Procs :
            /\ (IsSome(container[p]) /\ Attempted(p, "set_flags"))
                  => Get(container[p]).use_systemd = Some(Self(p).use_systemd)
            /\ IsSome(handoff[p]) =>
                  /\ Get(handoff[p]).use_systemd = Self(p).use_systemd
                  /\ Get(handoff[p]).container.use_systemd
                        = Some(Self(p).use_systemd))

\* One builder had systemd switched off and its build handed FALSE to the
\* backend; the other was left at the default and handed TRUE.
C12_Witness ==
    /\ IsSome(handoff["p1"]) /\ IsSome(handoff["p2"])
    /\ ~Self("p1").use_systemd
    /\ ~Get(handoff["p1"]).use_systemd
    /\ Get(handoff["p1"]).container.use_systemd = Some(FALSE)
    /\ Get(handoff["p2"]).use_systemd

\* The errors of build() that come before the creation of the directory.
PreDirErrors ==
    {"ErrLoad", "ErrVersion", "ErrProfile", "ErrApparmorProbe",
     "ErrCanonicalize", "ErrExists"}

\* The first build failed before creating the directory, and the second
\* caller builds the same id from the same bundle.
RepeatsFailedBuild ==
    /\ Done("p1")
    /\ result["p1"] \in PreDirErrors
    /\ IsSome(builder["p2"])
    /\ Self("p2").container_id = Self("p1").container_id
    /\ Self("p2").bundle = Self("p1").bundle

\* C13: when a build fails before the creation of the directory and build()
\* is then called again for the same id and bundle, the second call returns
\* the same error, creates nothing, and none of its steps changes the file
\* system.
C13_FailureIsRepeated ==
    /\ [](RepeatsFailedBuild =>
            /\ NoEffect("p1")
            /\ NoEffect("p2")
            /\ Done("p2") => result["p2"] = result["p1"])
    /\ [][(RepeatsFailedBuild /\ RepeatsFailedBuild') => UNCHANGED fsVars]_vars

\* Both calls failed on the directory of an earlier container, and the
\* directory is as that container left it.
C13_Witness ==
    /\ RepeatsFailedBuild
    /\ result["p1"] = "ErrExists"
    /\ result["p2"] = "ErrExists"
    /\ dirs[Id("p1")] = Some("earlier")
    /\ stateFile[Id("p1")] = Some(EarlierState(Id("p1")))

\* Two builds of different ids.
DistinctIds(p, q) ==
    /\ p # q
    /\ IsSome(builder[p]) /\ IsSome(builder[q])
    /\ Id(p) # Id(q)

\* C14: concurrent builds of different ids under one root path do not
\* contend: neither fails on the other's directory (no conflict error, no
\* failed creation on an existing directory), neither creates the other's
\* directory, and no step of a build changes anything in the directory of
\* another id.
C14_DistinctIdsDoNotContend ==
    /\ [](\A p, q \in Procs :
            DistinctIds(p, q) =>
                /\ result[p] # "ErrExists"
                /\ mkdirRes[p] # "exists"
                /\ IsSome(dirs[Id(q)]) => Get(dirs[Id(q)]) = q
                /\ IsSome(stateFile[Id(q)]) =>
                      /\ Get(stateFile[Id(q)]).id = Id(q)
                      /\ Get(stateFile[Id(q)]).bundle = Self(q).bundle
                /\ IsSome(configFile[Id(q)]) =>
                      Get(configFile[Id(q)]).rootless = IsSome(rootless[q]))
    /\ [][\A p \in Procs :
            (IsSome(builder[p]) /\ pc'[p] # pc[p]) =>
                \A i \in Ids \ {Id(p)} :
                    /\ dirs'[i] = dirs[i]
                    /\ stateFile'[i] = stateFile[i]
                    /\ configFile'[i] = configFile[i]
                    /\ socketFile'[i] = socketFile[i]
         ]_vars

\* Two builds of different ids both succeeded, each with its own directory.
C14_Witness ==
    /\ DistinctIds("p1", "p2")
    /\ result["p1"] = "Ok" /\ result["p2"] = "Ok"
    /\ dirs[Id("p1")] = Some("p1")
    /\ dirs[Id("p2")] = Some("p2")

\* The number of times the build of p attempted a step.
Attempts(p, step) ==
    Cardinality({k \in 1..Len(trace[p]) : trace[p][k] = step})

\* C15: in every build that invokes the backend, the persisted config's
\* rootless flag is TRUE exactly when the rootless value handed to the
\* backend is present, and both are the result of the one Rootless::new call
\* of that build.
C15_RootlessForwarded ==
    \A p \in Procs :
        IsSome(handoff[p]) =>
            /\ IsSome(configFile[Id(p)])
            /\ Get(configFile[Id(p)]).rootless = IsSome(Get(handoff[p]).rootless)
            /\ Get(handoff[p]).rootless = rootless[p]
            /\ Attempts(p, "rootless") = 1

\* The backend was invoked for a rootless container by one build and for a
\* privileged one by the other.
C15_Witness ==
    /\ backendRes["p1"] = "ok" /\ backendRes["p2"] = "ok"
    /\ IsSome(Get(handoff["p1"]).rootless)
    /\ Get(configFile[Id("p1")]).rootless
    /\ Get(handoff["p2"]).rootless = None
    /\ ~Get(configFile[Id("p2")]).rootless

\* C16: build() returns Ok only if every step ran, each once and in order,
\* and succeeded, the last two being the backend's create and refresh_state;
\* then the backend was invoked exactly once, root_path/id exists and was
\* created by this build, it holds a state file and a config file, and the
\* returned entity is the refreshed one, equal to the persisted state.
C16_OkMeansAllStepsSucceeded ==
    \A p \in Procs :
        (Done(p) /\ result[p] = "Ok") =>
            /\ trace[p] \in {StepOrder, StepOrderNoConsole}
            /\ trace[p][Len(trace[p])] = "refresh_state"
            /\ trace[p][Len(trace[p]) - 1] = "backend"
            /\ Attempts(p, "backend") = 1
            /\ backendRes[p] = "ok"
            /\ mkdirRes[p] = "ok"
            /\ dirs[Id(p)] = Some(p)
            /\ IsSome(stateFile[Id(p)])
            /\ IsSome(configFile[Id(p)])
            /\ Get(configFile[Id(p)]).id = Id(p)
            /\ IsSome(container[p])
            /\ Get(container[p]).status \in RefreshedStatus
            /\ Get(container[p]).pid = Some("init")
            /\ stateFile[Id(p)] = container[p]

\* A build returned Ok, and another build did not.
C16_Witness ==
    /\ Done("p1") /\ result["p1"] = "Ok"
    /\ Get(container["p1"]).status = "Created"
    /\ IsSome(configFile[Id("p1")])
    /\ Failed("p2")

\* C17: the entity handed to the backend is a copy of the entity of build()
\* taken after set_flags and before the backend runs: it has status Creating,
\* the builder's systemd flag and the annotations of the specification; the
\* backend's changes to it leave the entity of build() as it was, so that
\* entity still has status Creating and no pid when refresh_state is called.
C17_BackendGetsSnapshot ==
    /\ [](\A p \in Procs :
            IsSome(handoff[p]) =>
                LET h == Get(handoff[p]).container IN
                /\ Attempted(p, "set_flags")
                /\ h.id = Id(p)
                /\ h.use_systemd = Some(Self(p).use_systemd)
                /\ h.annotations = Some(BundleAt(Self(p).bundle).annotations)
                /\ backendRes[p] = "none" =>
                       /\ h = Get(container[p])
                       /\ h.status = "Creating"
                /\ pc[p] \in {"backend", "refresh_state"} =>
                       /\ Get(container[p]).status = "Creating"
                       /\ Get(container[p]).pid = None
                /\ result[p] = "ErrBackend" =>
                       Get(container[p]).status = "Creating")
    /\ [][\A p \in Procs :
            (pc[p] = "backend" /\ pc'[p] # "backend") =>
                /\ container'[p] = container[p]
                /\ stateFile' = stateFile]_vars

\* The backend changed its snapshot (status Created, a pid) and build() is
\* about to refresh its own entity, which is still Creating, with systemd
\* switched off and the annotations of the specification.
C17_Witness ==
    /\ pc["p1"] = "refresh_state"
    /\ Get(handoff["p1"]).container.status = "Created"
    /\ Get(handoff["p1"]).container.pid = Some("init")
    /\ Get(container["p1"]).status = "Creating"
    /\ Get(container["p1"]).use_systemd = Some(FALSE)
    /\ Get(handoff["p1"]).container.annotations = Some({<<"k1", "v1">>})

\* The directory of id i as the file system holds it.
DirContent(i) == <<dirs[i], stateFile[i], configFile[i], socketFile[i]>>

\* C18: in builds run one after another, once a build of an id has created
\* root_path/id, whether it then succeeded or failed, a later build of that
\* id finds the directory, fails (at the latest on the existence check),
\* attempts no creation, invokes no backend, and none of its steps changes
\* the directory or a file in it; only the build that created the directory
\* of an id ever writes a state or config file there.
C18_LaterBuildsFail ==
    /\ [](\A p \in Procs :
            (Called(p) /\ existedAtCall[p]) =>
                /\ IsSome(dirs[Id(p)]) /\ Get(dirs[Id(p)]) # p
                /\ NoEffect(p)
                /\ ~Attempted(p, "create_dir_all")
                /\ Done(p) => result[p] \in PreDirErrors)
    /\ [](\A p \in Procs :
            (Called(p) /\ dirs[Id(p)] = Some("earlier")) => existedAtCall[p])
    /\ []((Called("p2") /\ mkdirRes["p1"] = "ok" /\ Id("p2") = Id("p1")) =>
                /\ Done("p1")
                /\ dirs[Id("p2")] = Some("p1")
                /\ existedAtCall["p2"])
    /\ [][\A i \in Ids :
            /\ IsSome(dirs[i]) => dirs'[i] = dirs[i]
            /\ DirContent(i)' # DirContent(i) =>
                  \E p \in Procs :
                      /\ pc'[p] # pc[p]
                      /\ IsSome(builder[p]) /\ Id(p) = i
                      /\ dirs'[i] = Some(p)]_vars

\* The first build created the directory and then failed; the second build
\* of the same id failed on the existing directory and left it as it was.
C18_Witness ==
    /\ mkdirRes["p1"] = "ok"
    /\ result["p1"] = "ErrBackend"
    /\ Done("p2")
    /\ Id("p2") = Id("p1")
    /\ result["p2"] = "ErrExists"
    /\ Get(stateFile[Id("p1")]).status = "Creating"
    /\ Get(stateFile[Id("p1")]).bundle = Self("p1").bundle
    /\ Self("p2").bundle # Self("p1").bundle

\* C19, as stated: a build that fails in spec loading, validation or
\* directory allocation returns with the working directory unchanged, and a
\* build that fails at any later step returns with the working directory
\* set to the state directory.
C19_Original ==
    \A p \in Procs :
        Failed(p) =>
            IF result[p] \in PreDirErrors \cup {"ErrMkdir"}
            THEN cwd[p] = StartDir
            ELSE cwd[p] = container_dir(Id(p))

\* C19: the working directory of the caller is the state directory exactly
\* when build() attempted chdir and chdir did not fail, and otherwise is
\* what it was: a build that fails in spec loading, validation, directory
\* allocation, the creation of the container state or chdir itself leaves it
\* unchanged, a build that fails at a step after chdir, or succeeds, leaves
\* it set to the state directory.  When it is changed, this build created
\* the state directory and persisted the initial state; it is never changed
\* back.
C19_CwdChangedByChdirOnly ==
    /\ [](\A p \in Procs :
            IF IsSome(builder[p])
            THEN /\ cwd[p] \in {StartDir, container_dir(Id(p))}
                 /\ cwd[p] = container_dir(Id(p)) <=>
                       (Attempted(p, "chdir") /\ result[p] # "ErrChdir")
                 /\ cwd[p] = container_dir(Id(p)) =>
                       /\ mkdirRes[p] = "ok"
                       /\ dirs[Id(p)] = Some(p)
                       /\ IsSome(container[p])
                       /\ IsSome(stateFile[Id(p)])
                       /\ Get(stateFile[Id(p)]).id = Id(p)
                 /\ (Failed(p) /\ result[p] \in PreDirErrors \cup
                        {"ErrMkdir", "ErrContainerNew", "ErrStateSave",
                         "ErrChdir"}) => cwd[p] = StartDir
                 /\ (Done(p) /\ result[p] \notin PreDirErrors \cup
                        {"ErrMkdir", "ErrContainerNew", "ErrStateSave",
                         "ErrChdir"}) => cwd[p] = container_dir(Id(p))
            ELSE cwd[p] = StartDir)
    /\ [][\A p \in Procs : cwd[p] # StartDir => cwd'[p] = cwd[p]]_vars

\* One build failed while persisting the initial state and returned in the
\* directory it was called in; the other failed in the backend and returned
\* in its state directory.
C19_Witness ==
    /\ Failed("p1")
    /\ result["p1"] = "ErrStateSave"
    /\ cwd["p1"] = StartDir
    /\ Failed("p2")
    /\ result["p2"] = "ErrBackend"
    /\ cwd["p2"] = container_dir(Id("p2"))

====
